---- MODULE Spec2Model ----
(***************************************************************************)
(* Model of the MoonUI rendering class of moon.py (src/moon.py:18-127):    *)
(* per-character gradient colouring, ANSI stripping, box lines and rows,   *)
(* and terminal-width centring.                                            *)
(*                                                                         *)
(* A Python str is modelled as a sequence of one-character strings.  The   *)
(* escape character \033 is the token "ESC".  The box-drawing glyphs are   *)
(* written in ASCII:                                                       *)
(*     "|"  = U+2502 (vertical)      "-"  = U+2500 (horizontal)            *)
(*     "TL" = U+250C  "TR" = U+2510  (top corners)                         *)
(*     "ML" = U+251C  "MR" = U+2524  (middle tees)                         *)
(*     "BL" = U+2514  "BR" = U+2518  (bottom corners)                      *)
(***************************************************************************)
EXTENDS Integers, Sequences, FiniteSets, TLC

VARIABLES
    color_start,   \* self.color_start
    color_end,     \* self.color_end
    alt_start,     \* self.alt_start
    alt_end,       \* self.alt_end
    tty,           \* TRUE iff the call's os.get_terminal_size() succeeded
    columns,       \* the column count that query reported
    op,            \* the last operation called on moon_ui
    text,          \* its text argument
    w,             \* its width argument (w / box_width)
    align,         \* its align argument
    use_alt,       \* its use_alt argument
    center,        \* its center argument (print_gradient_line)
    clean,         \* box_row's local `clean` (the stripped text)
    tw,            \* the terminal width the call obtained (centered_pad's tw)
    exc,           \* the exception the call ended with, "none" if it returned
    result,        \* the string the call returned (print_gradient_line: printed)
    last,          \* what the previous terminal query answered, <<>> if none
    thr            \* per thread: the frame of its call in progress

vars == <<color_start, color_end, alt_start, alt_end, tty, columns,
          op, text, w, align, use_alt, center, clean, tw, exc, result,
          last, thr>>

\* the variables of the resized-terminal and the threaded executions
aside == <<last, thr>>

engine == <<color_start, color_end, alt_start, alt_end>>

-----------------------------------------------------------------------------
(* Bounds of the model *)

\* longest text argument
MaxLen == 3
\* widest box passed to the box_* operations (the narrowest is -1)
MaxW == 6
\* widest box passed to centered_pad (the narrowest is -1)
MaxBoxWidth == 81
\* longest text fed to the strip step alone
MaxStripLen == 6
\* number of threads calling into the shared moon_ui
NThreads == 2
\* longest text a thread passes to gradient_text
MaxThreadLen == 2

-----------------------------------------------------------------------------
(* Characters and strings *)

ESC == "ESC"

DigitChars == <<"0", "1", "2", "3", "4", "5", "6", "7", "8", "9">>

Digits == {DigitChars[i] : i \in 1..10}

\* the characters texts are drawn from: the escape grammar's characters,
\* an ordinary letter and the space
Alphabet == {ESC, "[", "3", "m", "a", " "}

\* the characters texts of the strip step are drawn from
StripAlphabet == {ESC, "[", ";", "m", "a"}

StringsUpTo(S, n) == UNION {[1..k -> S] : k \in 0..n}

Texts == StringsUpTo(Alphabet, MaxLen)

StripTexts == StringsUpTo(StripAlphabet, MaxStripLen)

Widths == (0 - 1)..MaxW

BoxWidths == (0 - 1)..MaxBoxWidth

\* the column counts os.get_terminal_size() may report when it succeeds
TerminalColumns == {0, 40, 80, 120}

\* what os.get_terminal_size() may answer: a failure, or a column count
TerminalAnswers ==
    {<<FALSE, 0>>} \cup {<<TRUE, c>> : c \in TerminalColumns}

Max(a, b) == IF a >= b THEN a ELSE b

\* Python's  c * k  for a one-character string c: empty when k <= 0
Rep(c, k) == IF k <= 0 THEN <<>> ELSE [i \in 1..k |-> c]

\* RepError were a negative count an error
RepErrorNegative(k) == IF k < 0 THEN "ValueError" ELSE "none"

\* the exception  c * k  ends with: none, whatever the sign of k
RepError(k) == "none"

\* the first exception of a sequence of evaluations, "none" if none raised
RECURSIVE FirstError(_)
FirstError(errs) ==
    IF errs = <<>> THEN "none"
    ELSE IF Head(errs) # "none" THEN Head(errs)
    ELSE FirstError(Tail(errs))

\* Python's int(x) for the rational x = num / den, den > 0: truncation toward zero
IntTrunc(num, den) ==
    IF num >= 0 THEN num \div den ELSE 0 - ((0 - num) \div den)

\* Python's f"{n}" for an int n: its decimal digits
RECURSIVE Str(_)
Str(n) ==
    IF n < 0 THEN <<"-">> \o Str(0 - n)
    ELSE IF n < 10 THEN <<DigitChars[n + 1]>>
    ELSE Str(n \div 10) \o <<DigitChars[(n % 10) + 1]>>

-----------------------------------------------------------------------------
(* MoonUI.gradient_text, src/moon.py:28-58 *)

\* Channel with round-to-nearest in place of int()'s truncation
ChannelRounded(s, e, i, length) ==
    IF length = 1
    THEN (2 * s + (e - s) + 1) \div 2
    ELSE (2 * (s * (length - 1) + (e - s) * i) + (length - 1))
             \div (2 * (length - 1))

\* Channel with t = (i + 1) / (length - 1): the ratio runs one step ahead
ChannelOvershoot(s, e, i, length) ==
    IF length = 1
    THEN IntTrunc(2 * s + (e - s), 2)
    ELSE IntTrunc(s * (length - 1) + (e - s) * (i + 1), length - 1)

\* Channel with t = 0 for a one-character text (no midpoint special case)
ChannelNoMidpoint(s, e, i, length) ==
    IF length = 1
    THEN s
    ELSE IntTrunc(s * (length - 1) + (e - s) * i, length - 1)

\* One channel of the colour of position i (0-based) in a text of `length`
\* characters: int(s + (e - s) * t) with t = 0.5 when length = 1 and
\* t = i / (length - 1) otherwise.  The code computes in double precision; for
\* the endpoints set in __init__ the double result truncates to the same
\* integer as the exact rational for every length below 3000, so the exact
\* value is used here.
Channel(s, e, i, length) ==
    IF length = 1
    THEN IntTrunc(2 * s + (e - s), 2)
    ELSE IntTrunc(s * (length - 1) + (e - s) * i, length - 1)

\* ColorSet with a bold attribute in front: "\033[1;38;2;{r};{g};{b}m"
ColorSetBold(r, g, b) ==
    <<ESC, "[", "1", ";", "3", "8", ";", "2", ";">> \o Str(r) \o <<";">>
        \o Str(g) \o <<";">> \o Str(b) \o <<"m">>

\* "\033[38;2;{r};{g};{b}m"
ColorSet(r, g, b) ==
    <<ESC, "[", "3", "8", ";", "2", ";">> \o Str(r) \o <<";">> \o Str(g)
        \o <<";">> \o Str(b) \o <<"m">>

\* "\033[0m"
Reset == <<ESC, "[", "0", "m">>

\* the loop of lines 43-55, from 0-based position i on
RECURSIVE GradientLoop(_, _, _, _)
GradientLoop(txt, i, start_color, end_color) ==
    IF i >= Len(txt) THEN <<>>
    ELSE ColorSet(Channel(start_color[1], end_color[1], i, Len(txt)),
                  Channel(start_color[2], end_color[2], i, Len(txt)),
                  Channel(start_color[3], end_color[3], i, Len(txt)))
         \o <<txt[i + 1]>>
         \o GradientLoop(txt, i + 1, start_color, end_color)

\* gradient_text without the early return of lines 39-40
gradient_text_no_return(txt, alt) ==
    LET start_color == IF alt THEN alt_start ELSE color_start
        end_color   == IF alt THEN alt_end ELSE color_end
    IN  GradientLoop(txt, 0, start_color, end_color) \o Reset

\* gradient_text with the reset emitted after every character
gradient_text_reset_each(txt, alt) ==
    LET start_color == IF alt THEN alt_start ELSE color_start
        end_color   == IF alt THEN alt_end ELSE color_end
        RECURSIVE Each(_)
        Each(k) == IF k > Len(txt) THEN <<>>
                   ELSE GradientLoop(<<txt[k]>>, 0, start_color, end_color)
                        \o Reset \o Each(k + 1)
    IN  IF Len(txt) = 0 THEN <<>> ELSE Each(1)

gradient_text(txt, alt) ==
    LET start_color == IF alt THEN alt_start ELSE color_start
        end_color   == IF alt THEN alt_end ELSE color_end
    IN  IF Len(txt) = 0 THEN <<>>
        ELSE GradientLoop(txt, 0, start_color, end_color) \o Reset

-----------------------------------------------------------------------------
(* re.sub(r'\033\[[0-9;]*m', '', text), src/moon.py:94 *)

\* the characters of the class [0-9;]
ParamChars == Digits \cup {";"}

\* the first position >= p of s that holds no [0-9;] character (Len(s) + 1
\* when there is none): where the greedy [0-9;]* stops
RECURSIVE ParamEnd(_, _)
ParamEnd(s, p) ==
    IF p > Len(s) \/ s[p] \notin ParamChars THEN p ELSE ParamEnd(s, p + 1)

\* MatchEnd for the pattern \033\[[0-9;]+m: at least one parameter character
MatchEndNonEmpty(s, i) ==
    IF i + 1 <= Len(s) /\ s[i] = ESC /\ s[i + 1] = "["
    THEN LET q == ParamEnd(s, i + 2)
         IN  IF q > i + 2 /\ q <= Len(s) /\ s[q] = "m" THEN q ELSE 0
    ELSE 0

\* the position of the closing m of a match of the pattern starting at
\* position i of s, or 0 when the pattern does not match at i
MatchEnd(s, i) ==
    IF i + 1 <= Len(s) /\ s[i] = ESC /\ s[i + 1] = "["
    THEN LET q == ParamEnd(s, i + 2)
         IN  IF q <= Len(s) /\ s[q] = "m" THEN q ELSE 0
    ELSE 0

\* StripFrom with count=1: only the first match is dropped
RECURSIVE StripFromOnce(_, _)
StripFromOnce(s, i) ==
    IF i > Len(s) THEN <<>>
    ELSE LET e == MatchEnd(s, i)
         IN  IF e > 0 THEN SubSeq(s, e + 1, Len(s))
             ELSE <<s[i]>> \o StripFromOnce(s, i + 1)

\* re.sub's scan from position i: a match is dropped and the scan resumes
\* after it; an unmatched character is copied
RECURSIVE StripFrom(_, _)
StripFrom(s, i) ==
    IF i > Len(s) THEN <<>>
    ELSE LET e == MatchEnd(s, i)
         IN  IF e > 0 THEN StripFrom(s, e + 1)
             ELSE <<s[i]>> \o StripFrom(s, i + 1)

strip(s) == StripFrom(s, 1)

-----------------------------------------------------------------------------
(* Box lines and rows, src/moon.py:77-109 *)

\* box_line with the fill repeated width - 1 times
box_line_off_by_one(left, fill, right, width) ==
    gradient_text(<<left>> \o Rep(fill, width - 1) \o <<right>>, FALSE)

box_line(left, fill, right, width) ==
    gradient_text(<<left>> \o Rep(fill, width - 2) \o <<right>>, FALSE)

box_line_error(width) == RepError(width - 2)

box_top(width) == box_line("TL", "-", "TR", width)

box_mid(width) == box_line("ML", "-", "MR", width)

box_bot(width) == box_line("BL", "-", "BR", width)

\* full_line with the centred right padding taken equal to the left one
full_line_symmetric(cl, width, al) ==
    LET inner == width - 2
        pad_left0  == IF al = "center" THEN (inner - Len(cl)) \div 2 ELSE 1
        pad_right0 == IF al = "center" THEN pad_left0
                      ELSE inner - Len(cl) - 1
        pad_left   == Max(pad_left0, 0)
        pad_right  == Max(pad_right0, 0)
    IN  <<"|">> \o Rep(" ", pad_left) \o cl \o Rep(" ", pad_right) \o <<"|">>

\* full_line with the content cut to the interior when it does not fit
full_line_truncating(cl, width, al) ==
    LET inner == width - 2
        cut        == SubSeq(cl, 1, Max(IF Len(cl) > inner THEN inner
                                        ELSE Len(cl), 0))
        pad_left0  == IF al = "center" THEN (inner - Len(cut)) \div 2 ELSE 1
        pad_right0 == IF al = "center" THEN inner - Len(cut) - pad_left0
                      ELSE inner - Len(cut) - 1
        pad_left   == Max(pad_left0, 0)
        pad_right  == Max(pad_right0, 0)
    IN  <<"|">> \o Rep(" ", pad_left) \o cut \o Rep(" ", pad_right) \o <<"|">>

\* full_line with the odd leftover space of a centred row put on the left
full_line_left_heavy(cl, width, al) ==
    LET inner == width - 2
        pad_right0 == IF al = "center" THEN (inner - Len(cl)) \div 2
                      ELSE inner - Len(cl) - 1
        pad_left0  == IF al = "center" THEN inner - Len(cl) - pad_right0 ELSE 1
        pad_left   == Max(pad_left0, 0)
        pad_right  == Max(pad_right0, 0)
    IN  <<"|">> \o Rep(" ", pad_left) \o cl \o Rep(" ", pad_right) \o <<"|">>

\* lines 95-104: the assembled line of box_row for the stripped text cl
full_line(cl, width, al) ==
    LET inner == width - 2
        pad_left0  == IF al = "center" THEN (inner - Len(cl)) \div 2 ELSE 1
        pad_right0 == IF al = "center" THEN inner - Len(cl) - pad_left0
                      ELSE inner - Len(cl) - 1
        pad_left   == Max(pad_left0, 0)
        pad_right  == Max(pad_right0, 0)
    IN  <<"|">> \o Rep(" ", pad_left) \o cl \o Rep(" ", pad_right) \o <<"|">>

\* lines 95-103: the clamped <<pad_left, pad_right>> of box_row
box_row_pads(cl, width, al) ==
    LET inner == width - 2
        pad_left0  == IF al = "center" THEN (inner - Len(cl)) \div 2 ELSE 1
        pad_right0 == IF al = "center" THEN inner - Len(cl) - pad_left0
                      ELSE inner - Len(cl) - 1
    IN  <<Max(pad_left0, 0), Max(pad_right0, 0)>>

box_row_error(txt, width, al) ==
    LET pads == box_row_pads(strip(txt), width, al)
    IN  FirstError(<<RepError(pads[1]), RepError(pads[2])>>)

\* box_row with the borders and the padded content coloured separately
box_row_per_segment(txt, width, al) ==
    LET line == full_line(strip(txt), width, al)
    IN  gradient_text(<<"|">>, FALSE)
        \o gradient_text(SubSeq(line, 2, Len(line) - 1), FALSE)
        \o gradient_text(<<"|">>, FALSE)

box_row(txt, width, al) ==
    gradient_text(full_line(strip(txt), width, al), FALSE)

\* box_empty through the left-aligned branch
box_empty_left(width) == box_row(<<>>, width, "left")

box_empty(width) == box_row(<<>>, width, "center")

(* Legacy helpers, src/moon.py:117-124: the style argument is ignored *)

gradient_border_top(width) == box_top(width)

gradient_border_bottom(width) == box_bot(width)

gradient_border_line(width) == box_mid(width)

-----------------------------------------------------------------------------
(* Terminal metrics, src/moon.py:70-75 and 111-114 *)

\* answer is what os.get_terminal_size() does when asked: <<TRUE, c>> is a
\* terminal of c columns, <<FALSE, 0>> an exception (OSError)
query_error(answer) == IF answer[1] THEN "none" ELSE "OSError"

\* the classes `except Exception` catches
Caught == {"OSError", "ValueError", "AttributeError"}

\* get_term_width without the try/except of lines 72-75
get_term_width_error_uncaught(answer) == query_error(answer)

\* the exception get_term_width ends with: the query's, unless caught
get_term_width_error(answer) ==
    IF query_error(answer) \in Caught THEN "none" ELSE query_error(answer)

get_term_width(answer) == IF answer[1] THEN answer[2] ELSE 80

\* centered_pad without the halving
centered_pad_not_halved(box_width, answer) ==
    LET t == get_term_width(answer)
    IN  Rep(" ", Max(t - box_width, 0))

centered_pad(box_width, answer) ==
    LET t == get_term_width(answer)
    IN  Rep(" ", Max((t - box_width) \div 2, 0))

centered_pad_error(box_width, answer) ==
    FirstError(<<get_term_width_error(answer),
                 RepError(Max((get_term_width(answer) - box_width) \div 2, 0))>>)

-----------------------------------------------------------------------------
(* MoonUI.print_gradient_line, src/moon.py:60-68.  os has get_terminal_size
   (Python 3.3 and later), so the hasattr test of line 64 is true. *)

\* line 64: the query is made only when centring, outside any try
print_gradient_line_error(ctr, answer) ==
    IF ctr THEN query_error(answer) ELSE "none"

\* the line handed to print()
print_gradient_line(txt, ctr, alt, answer) ==
    IF ctr
    THEN Rep(" ", (answer[2] - Len(txt)) \div 2) \o gradient_text(txt, alt)
    ELSE gradient_text(txt, alt)

-----------------------------------------------------------------------------
(* Threads calling into moon_ui: the frame of a call, src/moon.py:28-58 *)

Threads == 1..NThreads

\* a thread that is not inside a call
ThreadIdle ==
    [pc |-> "idle", op |-> "none", text |-> <<>>, w |-> 0, use_alt |-> FALSE,
     start_color |-> <<>>, end_color |-> <<>>, i |-> 0, result |-> <<>>,
     ret |-> <<>>, mixed |-> FALSE]

-----------------------------------------------------------------------------
(* The state machine: moon_ui after construction, then any sequence of calls *)

Init ==
    /\ color_start = <<80, 130, 255>>
    /\ color_end = <<255, 100, 180>>
    /\ alt_start = <<100, 160, 255>>
    /\ alt_end = <<255, 130, 200>>
    /\ tty = FALSE
    /\ columns = 0
    /\ op = "none"
    /\ text = <<>>
    /\ w = 0
    /\ align = "center"
    /\ use_alt = FALSE
    /\ center = FALSE
    /\ clean = <<>>
    /\ tw = 0
    /\ exc = "none"
    /\ result = <<>>
    /\ last = <<>>
    /\ thr = [t \in Threads |-> ThreadIdle]

\* A call is made when no call is in progress (the callers are sequential
\* code): Idle.  Its record holds its name, arguments, locals and return
\* value.
Idle == op = "none"

\* what the caller gets: the value, or nothing when the call raised
Returned(err, val) == IF err = "none" THEN val ELSE <<>>

\* Call with the chosen endpoints stored back into the primary spec
\* (self.color_start = ... in place of the locals of lines 30-35)
CallStoringEndpoints(name, txt, width, al, alt, cl, err, res) ==
    /\ op' = name
    /\ text' = txt
    /\ w' = width
    /\ align' = al
    /\ use_alt' = alt
    /\ clean' = cl
    /\ exc' = err
    /\ result' = Returned(err, res)
    /\ color_start' = IF alt THEN alt_start ELSE color_start
    /\ color_end' = IF alt THEN alt_end ELSE color_end
    /\ UNCHANGED <<aside, alt_start, alt_end, tty, columns, center, tw>>

Call(name, txt, width, al, alt, cl, err, res) ==
    /\ op' = name
    /\ text' = txt
    /\ w' = width
    /\ align' = al
    /\ use_alt' = alt
    /\ clean' = cl
    /\ exc' = err
    /\ result' = Returned(err, res)
    /\ UNCHANGED <<aside, engine, tty, columns, center, tw>>

GradientText ==
    /\ Idle
    /\ \E txt \in Texts, alt \in BOOLEAN :
           Call("gradient_text", txt, 0, "center", alt, <<>>, "none",
                gradient_text(txt, alt))

BoxTop ==
    /\ Idle
    /\ \E width \in Widths :
           Call("box_top", <<>>, width, "center", FALSE, <<>>,
                box_line_error(width), box_top(width))

BoxMid ==
    /\ Idle
    /\ \E width \in Widths :
           Call("box_mid", <<>>, width, "center", FALSE, <<>>,
                box_line_error(width), box_mid(width))

BoxBot ==
    /\ Idle
    /\ \E width \in Widths :
           Call("box_bot", <<>>, width, "center", FALSE, <<>>,
                box_line_error(width), box_bot(width))

BoxRow ==
    /\ Idle
    /\ \E txt \in Texts, width \in Widths, al \in {"center", "left"} :
           Call("box_row", txt, width, al, FALSE, strip(txt),
                box_row_error(txt, width, al), box_row(txt, width, al))

BoxEmpty ==
    /\ Idle
    /\ \E width \in Widths :
           Call("box_empty", <<>>, width, "center", FALSE, <<>>,
                box_row_error(<<>>, width, "center"), box_empty(width))

GradientBorderTop ==
    /\ Idle
    /\ \E width \in Widths :
           Call("gradient_border_top", <<>>, width, "center", FALSE, <<>>,
                box_line_error(width), gradient_border_top(width))

GradientBorderBottom ==
    /\ Idle
    /\ \E width \in Widths :
           Call("gradient_border_bottom", <<>>, width, "center", FALSE, <<>>,
                box_line_error(width), gradient_border_bottom(width))

GradientBorderLine ==
    /\ Idle
    /\ \E width \in Widths :
           Call("gradient_border_line", <<>>, width, "center", FALSE, <<>>,
                box_line_error(width), gradient_border_line(width))

\* a call that queries the terminal: as Call, with the query's answer
TermCall(name, width, answer, t, err, res) ==
    /\ op' = name
    /\ w' = width
    /\ tty' = answer[1]
    /\ columns' = answer[2]
    /\ tw' = IF err = "none" THEN t ELSE 0
    /\ exc' = err
    /\ result' = Returned(err, res)
    /\ UNCHANGED <<aside, engine, text, align, use_alt, center, clean>>

GetTermWidth ==
    /\ Idle
    /\ \E answer \in TerminalAnswers :
           TermCall("get_term_width", 0, answer, get_term_width(answer),
                    get_term_width_error(answer), <<>>)

CenteredPad ==
    /\ Idle
    /\ \E box_width \in BoxWidths, answer \in TerminalAnswers :
           TermCall("centered_pad", box_width, answer, get_term_width(answer),
                    centered_pad_error(box_width, answer),
                    centered_pad(box_width, answer))

\* print_gradient_line(text, center, use_alt): the terminal is asked only
\* when centring
PrintGradientLine ==
    /\ Idle
    /\ \E txt \in Texts, ctr \in BOOLEAN, alt \in BOOLEAN :
       \E answer \in (IF ctr THEN TerminalAnswers ELSE {<<FALSE, 0>>}) :
           LET err == print_gradient_line_error(ctr, answer)
           IN  /\ op' = "print_gradient_line"
               /\ text' = txt
               /\ center' = ctr
               /\ use_alt' = alt
               /\ tty' = answer[1]
               /\ columns' = answer[2]
               /\ tw' = IF ctr /\ err = "none" THEN answer[2] ELSE 0
               /\ exc' = err
               /\ result' =
                      Returned(err, print_gradient_line(txt, ctr, alt, answer))
               /\ UNCHANGED <<aside, engine, w, align, clean>>

\* the caller prints the returned string and goes on (e.g. line 365)
Consume ==
    /\ op # "none"
    /\ op' = "none"
    /\ text' = <<>>
    /\ w' = 0
    /\ align' = "center"
    /\ use_alt' = FALSE
    /\ center' = FALSE
    /\ clean' = <<>>
    /\ tw' = 0
    /\ tty' = FALSE
    /\ columns' = 0
    /\ exc' = "none"
    /\ result' = <<>>
    /\ UNCHANGED <<aside, engine>>

Next ==
    \/ GradientText
    \/ BoxTop
    \/ BoxMid
    \/ BoxBot
    \/ BoxRow
    \/ BoxEmpty
    \/ GradientBorderTop
    \/ GradientBorderBottom
    \/ GradientBorderLine
    \/ GetTermWidth
    \/ CenteredPad
    \/ PrintGradientLine
    \/ Consume

Spec == Init /\ [][Next]_vars

-----------------------------------------------------------------------------
(* The strip step on its own: a text is drawn, line 94 is applied to it, and
   then applied once more to its own output. *)

InitStrip ==
    /\ color_start = <<80, 130, 255>>
    /\ color_end = <<255, 100, 180>>
    /\ alt_start = <<100, 160, 255>>
    /\ alt_end = <<255, 130, 200>>
    /\ tty = FALSE
    /\ columns = 0
    /\ op = "none"
    /\ text \in StripTexts
    /\ w = 0
    /\ align = "center"
    /\ use_alt = FALSE
    /\ center = FALSE
    /\ clean = <<>>
    /\ tw = 0
    /\ exc = "none"
    /\ result = <<>>
    /\ last = <<>>
    /\ thr = [t \in Threads |-> ThreadIdle]

\* clean = re.sub(..., '', text)
StripStep ==
    /\ op = "none"
    /\ op' = "strip"
    /\ clean' = strip(text)
    /\ UNCHANGED <<aside, engine, tty, columns, text, w, align, use_alt, center, tw,
                   exc, result>>

\* the same substitution applied to clean
StripAgain ==
    /\ op = "strip"
    /\ op' = "restrip"
    /\ result' = strip(clean)
    /\ UNCHANGED <<aside, engine, tty, columns, text, w, align, use_alt, center, tw,
                   exc, clean>>

NextStrip ==
    \/ StripStep
    \/ StripAgain

SpecStrip == InitStrip /\ [][NextStrip]_vars

-----------------------------------------------------------------------------
(* The terminal resized between calls: here tty and columns are the terminal
   itself, which answers every query made of it, and last is what the
   previous call's query was answered. *)

\* the record of the call in progress
frame == <<op, text, w, align, use_alt, center, clean, tw, exc, result>>

\* a query that keeps the first answer for all later calls
QueryCached(terminal, earlier) == IF earlier = <<>> THEN terminal ELSE earlier

\* line 72: os.get_terminal_size() is called in the body of get_term_width,
\* on every call; nothing an earlier call obtained is kept or consulted
Query(terminal, earlier) == terminal

\* the window is resized, or the output is redirected or attached again
Resize ==
    /\ Idle
    /\ \E answer \in TerminalAnswers :
           /\ answer # <<tty, columns>>
           /\ tty' = answer[1]
           /\ columns' = answer[2]
    /\ UNCHANGED <<engine, frame, aside>>

TermGetTermWidth ==
    /\ Idle
    /\ LET answer == Query(<<tty, columns>>, last)
       IN  /\ op' = "get_term_width"
           /\ tw' = get_term_width(answer)
           /\ exc' = get_term_width_error(answer)
    /\ UNCHANGED <<engine, aside, tty, columns, text, w, align, use_alt,
                   center, clean, result>>

TermCenteredPad ==
    /\ Idle
    /\ \E box_width \in BoxWidths :
           LET answer == Query(<<tty, columns>>, last)
           IN  /\ op' = "centered_pad"
               /\ w' = box_width
               /\ tw' = get_term_width(answer)
               /\ exc' = centered_pad_error(box_width, answer)
               /\ result' = Returned(centered_pad_error(box_width, answer),
                                     centered_pad(box_width, answer))
    /\ UNCHANGED <<engine, thr, last, tty, columns, text, align, use_alt,
                   center, clean>>

\* the call returns; the terminal stays as it is
TermReturn ==
    /\ op # "none"
    /\ last' = Query(<<tty, columns>>, last)
    /\ op' = "none"
    /\ w' = 0
    /\ tw' = 0
    /\ exc' = "none"
    /\ result' = <<>>
    /\ UNCHANGED <<engine, thr, tty, columns, text, align, use_alt, center,
                   clean>>

NextTerm ==
    \/ Resize
    \/ TermGetTermWidth
    \/ TermCenteredPad
    \/ TermReturn

SpecTerm == Init /\ [][NextTerm]_vars

-----------------------------------------------------------------------------
(* Threads on the shared instance.  A step is one statement group of
   gradient_text; the steps of different threads interleave freely.  The box
   operations build their line from their arguments alone and hand it to
   gradient_text. *)

\* thread t's texts are made of its own digit
ThreadTexts(t) ==
    {[k \in 1..n |-> DigitChars[t + 1]] : n \in 0..MaxThreadLen}

ThreadWidths == {0, 3}

\* the call record of the sequential executions, not used by threads
sequential == <<tty, columns, frame, last>>

\* a single accumulator kept on the instance (self.result)
AccumulatorOnInstance(t) == 1

\* line 37: result is a local of the call, so each call has its own; the
\* accumulator of thread t's call is the one in t's frame
Accumulator(t) == t

\* thread t calls moon_ui.gradient_text(txt, alt)
ThreadGradientText(t) ==
    /\ thr[t].pc = "idle"
    /\ \E txt \in ThreadTexts(t), alt \in BOOLEAN :
           thr' = [thr EXCEPT ![t] =
                      [ThreadIdle EXCEPT !.pc = "start",
                                         !.op = "gradient_text",
                                         !.text = txt,
                                         !.use_alt = alt]]
    /\ UNCHANGED <<engine, sequential>>

\* thread t calls moon_ui.box_empty(width): lines 109 and 94-105 assemble
\* the line and call gradient_text on it
ThreadBoxEmpty(t) ==
    /\ thr[t].pc = "idle"
    /\ \E width \in ThreadWidths :
           thr' = [thr EXCEPT ![t] =
                      [ThreadIdle EXCEPT !.pc = "start",
                                         !.op = "box_empty",
                                         !.w = width,
                                         !.text = full_line(strip(<<>>), width,
                                                            "center")]]
    /\ UNCHANGED <<engine, sequential>>

\* lines 31 / 34: start_color is read from the instance
ThreadReadStart(t) ==
    /\ thr[t].pc = "start"
    /\ thr' = [thr EXCEPT ![t].pc = "end",
                          ![t].start_color =
                              IF thr[t].use_alt THEN alt_start ELSE color_start]
    /\ UNCHANGED <<engine, sequential>>

\* lines 32 / 35 and 37-40: end_color is read, the accumulator is emptied,
\* and an empty text returns at once
ThreadReadEnd(t) ==
    /\ thr[t].pc = "end"
    /\ LET emptied == [thr EXCEPT ![Accumulator(t)].result = <<>>]
       IN  thr' = [emptied EXCEPT
                      ![t].end_color =
                          IF thr[t].use_alt THEN alt_end ELSE color_end,
                      ![t].i = 0,
                      ![t].pc = IF thr[t].text = <<>> THEN "done" ELSE "loop"]
    /\ UNCHANGED <<engine, sequential>>

\* lines 43-55: one iteration of the loop.  The calls of other threads that
\* are inside their loop are marked as having been interleaved with.
ThreadLoop(t) ==
    /\ thr[t].pc = "loop"
    /\ thr[t].i < Len(thr[t].text)
    /\ LET f == thr[t]
           n == Len(f.text)
           piece ==
               ColorSet(Channel(f.start_color[1], f.end_color[1], f.i, n),
                        Channel(f.start_color[2], f.end_color[2], f.i, n),
                        Channel(f.start_color[3], f.end_color[3], f.i, n))
               \o <<f.text[f.i + 1]>>
           marked == [u \in Threads |->
                         IF u # t /\ thr[u].pc = "loop"
                         THEN [thr[u] EXCEPT !.mixed = TRUE]
                         ELSE thr[u]]
           appended == [marked EXCEPT ![Accumulator(t)].result = @ \o piece]
       IN  thr' = [appended EXCEPT ![t].i = @ + 1]
    /\ UNCHANGED <<engine, sequential>>

\* lines 57-58: the reset is appended and the accumulator returned
ThreadFinish(t) ==
    /\ thr[t].pc = "loop"
    /\ thr[t].i = Len(thr[t].text)
    /\ thr' = [thr EXCEPT ![t].pc = "done",
                          ![t].ret = thr[Accumulator(t)].result \o Reset]
    /\ UNCHANGED <<engine, sequential>>

\* the caller takes the string; the frame is gone
ThreadReturn(t) ==
    /\ thr[t].pc = "done"
    /\ thr' = [thr EXCEPT ![t] = ThreadIdle]
    /\ UNCHANGED <<engine, sequential>>

NextThreads ==
    \E t \in Threads :
        \/ ThreadGradientText(t)
        \/ ThreadBoxEmpty(t)
        \/ ThreadReadStart(t)
        \/ ThreadReadEnd(t)
        \/ ThreadLoop(t)
        \/ ThreadFinish(t)
        \/ ThreadReturn(t)

SpecThreads == Init /\ [][NextThreads]_vars

-----------------------------------------------------------------------------
(* The escape grammar, stated on positions *)

\* positions i..j of s hold one complete sequence ESC [ (digit | ;)* m
IsComplete(s, i, j) ==
    /\ 1 <= i
    /\ i + 2 <= j
    /\ j <= Len(s)
    /\ s[i] = ESC
    /\ s[i + 1] = "["
    /\ s[j] = "m"
    /\ \A k \in (i + 2)..(j - 1) : s[k] \in ParamChars

HasComplete(s) ==
    \E i \in 1..Len(s), j \in 1..Len(s) : IsComplete(s, i, j)

\* the positions of s that lie inside a complete sequence
Covered(s) ==
    {p \in 1..Len(s) :
        \E i \in 1..p, j \in p..Len(s) : IsComplete(s, i, j)}

\* the characters of s at the positions >= p outside C, in order
RECURSIVE Pick(_, _, _)
Pick(s, p, C) ==
    IF p > Len(s) THEN <<>>
    ELSE (IF p \in C THEN <<>> ELSE <<s[p]>>) \o Pick(s, p + 1, C)

\* every ESC of s begins a complete sequence
WellFormed(s) ==
    \A i \in 1..Len(s) :
        s[i] = ESC => \E j \in 1..Len(s) : IsComplete(s, i, j)

-----------------------------------------------------------------------------
(* C8 *)

\* C8: the strip step removes exactly the characters of the complete
\* sequences ESC [ (digit | ;)* m of its input and keeps every other
\* character, in order; so an incomplete sequence stays, and a text with no
\* complete sequence is returned unchanged.
C8_StripRemovesExactlyCompleteSequences ==
    op = "strip" =>
        /\ clean = Pick(text, 1, Covered(text))
        /\ (~HasComplete(text) => clean = text)

\* a text holding an incomplete sequence and then a complete one: only the
\* complete one is gone
C8_Witness ==
    /\ op = "strip"
    /\ text = <<ESC, "[", ";", ESC, "[", "m">>
    /\ clean = <<ESC, "[", ";">>

-----------------------------------------------------------------------------
(* C3 *)

\* C3 as stated: stripping is idempotent, strip(strip(X)) = strip(X) for
\* every X.
C3_StripIdempotent ==
    op = "restrip" => result = clean

\* C3 amended: strip(strip(X)) = strip(X) for every X in which each ESC
\* begins a complete sequence (no dangling ESC); the stripped text then
\* holds no ESC at all.
C3_StripIdempotentOnWellFormed ==
    (op = "restrip" /\ WellFormed(text)) =>
        /\ result = clean
        /\ ~HasComplete(clean)

\* a well-formed text with two sequences, stripped and stripped again
C3_Witness ==
    /\ op = "restrip"
    /\ text = <<ESC, "[", "m", ESC, "[", "m">>
    /\ clean = <<>>
    /\ result = <<>>

-----------------------------------------------------------------------------
(* Reading a rendered line back: colour-set sequences, characters, reset *)

\* the first position >= p of s that holds no digit
RECURSIVE NumEnd(_, _)
NumEnd(s, p) ==
    IF p > Len(s) \/ s[p] \notin Digits THEN p ELSE NumEnd(s, p + 1)

DigitValue(c) == CHOOSE d \in 0..9 : DigitChars[d + 1] = c

\* the number written in decimal at positions a..b of s
RECURSIVE Decimal(_, _, _)
Decimal(s, a, b) ==
    IF a > b THEN 0
    ELSE 10 * Decimal(s, a, b - 1) + DigitValue(s[b])

ColorSetPrefix == <<ESC, "[", "3", "8", ";", "2", ";">>

\* If a sequence ESC[38;2;<r>;<g>;<b>m with decimal r, g, b starts at
\* position p of s: the position of its m and the colour; else end = 0.
ReadColorSet(s, p) ==
    LET none == [end |-> 0, rgb |-> <<0, 0, 0>>]
        r1 == p + 7
        r2 == NumEnd(s, r1)
        g2 == NumEnd(s, r2 + 1)
        b2 == NumEnd(s, g2 + 1)
    IN  IF p + 6 > Len(s) \/ SubSeq(s, p, p + 6) # ColorSetPrefix THEN none
        ELSE IF r2 = r1 \/ r2 > Len(s) \/ s[r2] # ";" THEN none
        ELSE IF g2 = r2 + 1 \/ g2 > Len(s) \/ s[g2] # ";" THEN none
        ELSE IF b2 = g2 + 1 \/ b2 > Len(s) \/ s[b2] # "m" THEN none
        ELSE [end |-> b2,
              rgb |-> <<Decimal(s, r1, r2 - 1), Decimal(s, r2 + 1, g2 - 1),
                        Decimal(s, g2 + 1, b2 - 1)>>]

Broken == [rgb |-> <<0, 0, 0>>, ch |-> "BROKEN"]

\* s from position p on, read as (colour-set sequence, one character)*
\* followed by exactly the reset: the colours and characters, or an entry
\* Broken where s is not of that form
RECURSIVE ReadLine(_, _)
ReadLine(s, p) ==
    IF p + 3 = Len(s) /\ SubSeq(s, p, p + 3) = Reset THEN <<>>
    ELSE LET cs == ReadColorSet(s, p)
         IN  IF cs.end = 0 \/ cs.end + 1 > Len(s) THEN <<Broken>>
             ELSE <<[rgb |-> cs.rgb, ch |-> s[cs.end + 1]] >>
                  \o ReadLine(s, cs.end + 2)

CharsOf(s) == LET l == ReadLine(s, 1) IN [k \in 1..Len(l) |-> l[k].ch]

ColorsOf(s) == LET l == ReadLine(s, 1) IN [k \in 1..Len(l) |-> l[k].rgb]

\* the number of places of s where the reset sequence stands
Resets(s) ==
    Cardinality({p \in 1..Len(s) :
        p + 3 <= Len(s) /\ SubSeq(s, p, p + 3) = Reset})

\* the spec a call colours with
StartOf(alt) == IF alt THEN alt_start ELSE color_start
EndOf(alt) == IF alt THEN alt_end ELSE color_end

BoxOps == {"box_top", "box_mid", "box_bot", "box_row", "box_empty"}

-----------------------------------------------------------------------------
(* C1 *)

\* C1: for a non-empty text T of n characters, gradient_text(T) is n
\* colour-set sequences ESC[38;2;r;g;bm, each followed by the next character
\* of T, then one reset ESC[0m and nothing else; one strip pass over it
\* gives T back, also when T itself holds ESC characters or sequences.
C1_GradientShapeAndStripRoundTrip ==
    (op = "gradient_text" /\ text # <<>>) =>
        /\ CharsOf(result) = text
        /\ Len(ColorsOf(result)) = Len(text)
        /\ Resets(result) = 1
        /\ strip(result) = text

\* a text that is itself a complete escape sequence, coloured
C1_Witness ==
    /\ op = "gradient_text"
    /\ text = <<ESC, "[", "m">>
    /\ CharsOf(result) = text
    /\ strip(result) = text

-----------------------------------------------------------------------------
(* C7 *)

\* C7: gradient_text("") is the empty string for either spec: neither a
\* colour-set sequence nor a reset is emitted.
C7_EmptyTextGivesEmptyString ==
    (op = "gradient_text" /\ text = <<>>) => result = <<>>

C7_Witness ==
    /\ op = "gradient_text"
    /\ text = <<>>
    /\ use_alt
    /\ result = <<>>

-----------------------------------------------------------------------------
(* C5 *)

\* floor(a + (b - a) * i / (n - 1)) for n >= 2
FloorLerp(a, b, i, n) == (a * (n - 1) + (b - a) * i) \div (n - 1)

\* the line a call handed to gradient_text has n >= 2 characters and its
\* result carries, at every position i, floor(start + (end - start) * i /
\* (n - 1)) on each channel
FollowsGradient(res, start, end) ==
    LET colors == ColorsOf(res)
        n      == Len(colors)
    IN  \A i \in 0..(n - 1) : \A c \in 1..3 :
            colors[i + 1][c] = FloorLerp(start[c], end[c], i, n)

\* C5: in a text of n >= 2 characters, position i is coloured, on each
\* channel, floor(start + (end - start) * i / (n - 1)), with the primary
\* spec, or the alt spec under use_alt; position 0 gets start and position
\* n - 1 gets end.  The box operations colour their whole line through the
\* same gradient_text, with the primary spec.
C5_LinearGradientFloored ==
    /\ (op = "gradient_text" /\ Len(text) >= 2) =>
            /\ Len(ColorsOf(result)) = Len(text)
            /\ FollowsGradient(result, StartOf(use_alt), EndOf(use_alt))
            /\ ColorsOf(result)[1] = StartOf(use_alt)
            /\ ColorsOf(result)[Len(text)] = EndOf(use_alt)
    /\ op \in BoxOps =>
            LET colors == ColorsOf(result)
                n      == Len(colors)
            IN  /\ n >= 2
                /\ \A i \in 0..(n - 1) : \A c \in 1..3 :
                       colors[i + 1][c]
                           = FloorLerp(color_start[c], color_end[c], i, n)

\* three characters under the alt spec: the middle one sits at t = 0.5,
\* where 100 + 155 / 2 = 177.5 and 255 - 55 / 2 = 227.5 are cut to 177, 227
C5_Witness ==
    /\ op = "gradient_text"
    /\ use_alt
    /\ Len(text) = 3
    /\ ColorsOf(result) =
           <<(<<100, 160, 255>>), (<<177, 145, 227>>), (<<255, 130, 200>>)>>

-----------------------------------------------------------------------------
(* C6 *)

\* C6: a one-character text is coloured floor(start + (end - start) * 0.5)
\* on each channel, that is floor((start + end) / 2); with the endpoints
\* (10,20,30) and (90,80,70) the loop emits (50,50,50).
C6_SingleCharacterMidpoint ==
    /\ (op = "gradient_text" /\ Len(text) = 1) =>
            ColorsOf(result) =
                << [c \in 1..3 |->
                       (StartOf(use_alt)[c] + EndOf(use_alt)[c]) \div 2] >>
    /\ ColorsOf(GradientLoop(<<"X">>, 0, <<10, 20, 30>>, <<90, 80, 70>>)
                 \o Reset) = << (<<50, 50, 50>>) >>

\* one character under the primary spec: (80+255)/2 = 167.5 is cut to 167
C6_Witness ==
    /\ op = "gradient_text"
    /\ ~use_alt
    /\ text = <<"a">>
    /\ ColorsOf(result) = << (<<167, 115, 217>>) >>

-----------------------------------------------------------------------------
(* C9 *)

Corners ==
    [box_top |-> <<"TL", "TR">>, box_mid |-> <<"ML", "MR">>,
     box_bot |-> <<"BL", "BR">>]

\* C9: box_top(w), box_mid(w) and box_bot(w), stripped, are the left corner,
\* max(w - 2, 0) horizontal glyphs and the right corner of their pair; they
\* are coloured with the primary spec, from color_start on the left corner
\* to color_end on the right one; for w < 2 they are the two corners alone.
C9_BorderLines ==
    op \in {"box_top", "box_mid", "box_bot"} =>
        LET line == <<Corners[op][1]>> \o Rep("-", Max(w - 2, 0))
                        \o <<Corners[op][2]>>
        IN  /\ strip(result) = line
            /\ CharsOf(result) = line
            /\ ColorsOf(result)[1] = color_start
            /\ ColorsOf(result)[Len(line)] = color_end
            /\ (w < 2 => CharsOf(result) = Corners[op])

\* a bottom border of width 1: the fill count -1 gives no fill
C9_Witness ==
    /\ op = "box_bot"
    /\ w = 1
    /\ strip(result) = <<"BL", "BR">>
    /\ ColorsOf(result) = <<color_start, color_end>>

-----------------------------------------------------------------------------
(* C10 *)

\* C10: centered_pad(box_width) is floor((get_width() - box_width) / 2)
\* spaces, and none when that is negative: nothing when the terminal is
\* narrower than the box, 10 spaces for a box of 60 on 80 columns.
C10_CenteredPad ==
    op = "centered_pad" =>
        LET k == Len(result)
        IN  /\ \A p \in 1..k : result[p] = " "
            /\ tw = (IF tty THEN columns ELSE 80)
            /\ (tw >= w => 2 * k <= tw - w /\ tw - w <= 2 * k + 1)
            /\ (tw < w => k = 0)
            /\ ((tw = 80 /\ w = 60) => k = 10)

C10_Witness ==
    /\ op = "centered_pad"
    /\ tty
    /\ columns = 80
    /\ w = 60
    /\ result = Rep(" ", 10)

-----------------------------------------------------------------------------
(* C2 *)

\* C2: every line of box_top, box_mid, box_bot, box_empty and box_row
\* (centred or left-aligned), stripped of its colour codes, has exactly
\* `width` characters whenever the content fits, len(clean) <= width - 2
\* (the content of a border-only line and of box_empty is empty).
C2_LineHasWidthWhenContentFits ==
    (op \in BoxOps /\ Len(clean) <= w - 2) => Len(strip(result)) = w

-----------------------------------------------------------------------------
(* C4 *)

\* s without its leading spaces
RECURSIVE TrimLeft(_)
TrimLeft(s) ==
    IF s # <<>> /\ s[1] = " " THEN TrimLeft(Tail(s)) ELSE s

\* s without its trailing spaces
RECURSIVE TrimRight(_)
TrimRight(s) ==
    IF s # <<>> /\ s[Len(s)] = " "
    THEN TrimRight(SubSeq(s, 1, Len(s) - 1)) ELSE s

Trim(s) == TrimRight(TrimLeft(s))

\* a centred row whose text is no longer than the interior
CenteredRowThatFits == op = "box_row" /\ align = "center" /\ Len(text) <= w - 2

\* the stripped result is `width` characters between two vertical glyphs
FramedToWidth(line) ==
    /\ Len(line) = w
    /\ line[1] = "|"
    /\ line[w] = "|"

\* C4 as stated: for box_row(text, width, center) with len(text) <= width-2
\* the stripped result has `width` characters, starts and ends with the
\* border glyph, and its interior trimmed of spaces is `text`, for every
\* text.
C4_InteriorIsText ==
    CenteredRowThatFits =>
        LET line == strip(result)
        IN  /\ FramedToWidth(line)
            /\ Trim(SubSeq(line, 2, Len(line) - 1)) = text

\* C4 amended: ... its interior trimmed of spaces is `text` with its
\* complete escape sequences removed and its own leading and trailing
\* spaces trimmed (so `text` itself when it has neither).
C4_InteriorIsCleanedTrimmedText ==
    CenteredRowThatFits =>
        LET line == strip(result)
        IN  /\ FramedToWidth(line)
            /\ Trim(SubSeq(line, 2, Len(line) - 1))
                   = Trim(Pick(text, 1, Covered(text)))
            /\ ((~HasComplete(text) /\ Trim(text) = text) =>
                   Trim(SubSeq(line, 2, Len(line) - 1)) = text)

\* a centred row around a one-letter text, with an odd space left over
C4_Witness ==
    /\ op = "box_row"
    /\ align = "center"
    /\ text = <<"a">>
    /\ w = 6
    /\ strip(result) = <<"|", " ", "a", " ", " ", "|">>

-----------------------------------------------------------------------------
(* C11 *)

\* C11: get_term_width returns the terminal's column count when the query
\* succeeds and 80 when it fails; it never raises, and so neither does
\* centered_pad, which asks through it.
C11_TermWidthOrEighty ==
    op \in {"get_term_width", "centered_pad"} =>
        /\ exc = "none"
        /\ (tty => tw = columns)
        /\ (~tty => tw = 80)

\* the query fails: no exception, 80 columns
C11_Witness ==
    /\ op = "get_term_width"
    /\ ~tty
    /\ exc = "none"
    /\ tw = 80

-----------------------------------------------------------------------------
(* C12 *)

RenderingOps ==
    {"gradient_text", "box_top", "box_mid", "box_bot", "box_row", "box_empty"}

-----------------------------------------------------------------------------
(* C13 *)

\* the four endpoints hold the values of __init__
Constructed ==
    /\ color_start = <<80, 130, 255>>
    /\ color_end = <<255, 100, 180>>
    /\ alt_start = <<100, 160, 255>>
    /\ alt_end = <<255, 130, 200>>

\* C13: after any sequence of calls the four endpoints hold the values set
\* at construction, and nothing else survives a call: between two calls the
\* state is the one after construction, so a call's result depends only on
\* its arguments (first colour of a line: the constructed start colour).
C13_EndpointsNeverWritten ==
    /\ Constructed
    /\ (Idle => Init)
    /\ ((op = "gradient_text" /\ Len(text) >= 2) =>
            ColorsOf(result)[1] =
                (IF use_alt THEN <<100, 160, 255>> ELSE <<80, 130, 255>>))
    /\ (op \in BoxOps => ColorsOf(result)[1] = <<80, 130, 255>>)

\* a primary-spec row rendered after a call that used the alt spec is
\* reachable only through Idle; here: an alt call has just returned
C13_Witness ==
    /\ op = "gradient_text"
    /\ use_alt
    /\ Len(text) >= 2
    /\ Constructed
    /\ ColorsOf(result)[1] = <<100, 160, 255>>

-----------------------------------------------------------------------------
(* C14 *)

\* C14: when several threads call into the shared moon_ui with no lock,
\* under every interleaving of their steps each call returns the string it
\* would return run alone, made of its own characters only, and the
\* endpoints stay as constructed.
C14_ConcurrentCallsReturnAsAlone ==
    /\ Constructed
    /\ \A t \in Threads :
           thr[t].pc = "done" =>
               /\ (thr[t].op = "gradient_text" =>
                       thr[t].ret = gradient_text(thr[t].text, thr[t].use_alt))
               /\ (thr[t].op = "box_empty" =>
                       thr[t].ret = box_empty(thr[t].w))
               /\ (thr[t].text # <<>> =>
                       CharsOf(thr[t].ret) = thr[t].text)

\* thread 1's two-character call has finished after thread 2 took loop steps
\* in the middle of it, and thread 2's alt call is still in its loop
C14_Witness ==
    /\ thr[1].pc = "done"
    /\ thr[1].mixed
    /\ thr[1].op = "gradient_text"
    /\ thr[1].text = <<"1", "1">>
    /\ thr[1].ret = gradient_text(<<"1", "1">>, FALSE)
    /\ thr[2].pc = "loop"
    /\ thr[2].use_alt
    /\ thr[2].i = 1

-----------------------------------------------------------------------------
(* C15 *)

\* C15: get_term_width and centered_pad ask the terminal on every call: the
\* width a call obtains is the column count the terminal has at that call,
\* or 80 if the query fails then, whatever the previous call was answered.
C15_EveryCallQueriesAfresh ==
    /\ (op \in {"get_term_width", "centered_pad"} =>
            /\ exc = "none"
            /\ tw = (IF tty THEN columns ELSE 80))
    /\ (op = "centered_pad" =>
            result = Rep(" ", Max(((IF tty THEN columns ELSE 80) - w) \div 2,
                                  0)))

\* the previous call's query failed (it obtained 80); the terminal now has
\* 120 columns and this call obtains 120
C15_Witness ==
    /\ op = "get_term_width"
    /\ last = <<FALSE, 0>>
    /\ tty
    /\ columns = 120
    /\ tw = 120

-----------------------------------------------------------------------------
(* C16 *)

\* C16: every complete sequence ESC [ (digit | ;)* m found anywhere in the
\* output of gradient_text and of the box operations is a colour-set
\* sequence ESC[38;2;r;g;bm or the reset ESC[0m that ends the output; no
\* other (background, style) sequence appears, whatever the input holds.
C16_OnlyColorSetsAndFinalReset ==
    op \in RenderingOps =>
        \A i \in 1..Len(result) :
            result[i] = ESC =>
                \A j \in (i + 2)..Len(result) :
                    IsComplete(result, i, j) =>
                        \/ ReadColorSet(result, i).end = j
                        \/ (SubSeq(result, i, j) = Reset /\ j = Len(result))

\* the text is itself the style sequence ESC[m; coloured under the alt
\* spec, the output holds three colour-sets and the reset
C16_Witness ==
    /\ op = "gradient_text"
    /\ use_alt
    /\ text = <<ESC, "[", "m">>
    /\ HasComplete(text)
    /\ Len(ColorsOf(result)) = 3
    /\ Resets(result) = 1

-----------------------------------------------------------------------------
(* C17 *)

Letters(n) == [k \in 1..n |-> "a"]

\* box_row("toolongforthisbox", 6, left), 17 letters: the assembled line is
\* the border, one space, the 17 letters and the border
C17_Example ==
    full_line(strip(Letters(17)), 6, "left")
        = <<"|", " ">> \o Letters(17) \o <<"|">>

\* C17: when the stripped content is longer than the interior, box_row
\* neither cuts it nor fails: both paddings clamp, and the stripped result
\* is border + clean + border when centred and border + one space + clean +
\* border when left-aligned.
C17_OverflowKeepsContent ==
    /\ C17_Example
    /\ (op = "box_row" /\ Len(clean) > w - 2) =>
            /\ exc = "none"
            /\ (align = "center" =>
                    strip(result) = <<"|">> \o clean \o <<"|">>)
            /\ (align = "left" =>
                    strip(result) = <<"|", " ">> \o clean \o <<"|">>)

\* three letters, left-aligned, in a box of width 2
C17_Witness ==
    /\ op = "box_row"
    /\ align = "left"
    /\ w = 2
    /\ text = <<"a", "a", "a">>
    /\ strip(result) = <<"|", " ", "a", "a", "a", "|">>

-----------------------------------------------------------------------------
(* C18 *)

\* box_row("hi", 10, center): three spaces on either side
C18_Example ==
    full_line(<<"h", "i">>, 10, "center")
        = <<"|", " ", " ", " ", "h", "i", " ", " ", " ", "|">>

\* C18: a centred row whose content fits has floor((inner - len) / 2)
\* spaces before the content and the rest after it: the two paddings sum to
\* inner - len, and the right one is the left one or one more.
C18_CenteredPadding ==
    /\ C18_Example
    /\ (op = "box_row" /\ align = "center" /\ Len(clean) <= w - 2) =>
            \E pl \in 0..w, pr \in 0..w :
                /\ pl + pr = (w - 2) - Len(clean)
                /\ pr - pl \in {0, 1}
                /\ 2 * pl <= (w - 2) - Len(clean)
                /\ (w - 2) - Len(clean) <= 2 * pl + 1
                /\ strip(result) =
                       <<"|">> \o Rep(" ", pl) \o clean \o Rep(" ", pr)
                           \o <<"|">>

\* an odd leftover: a two-letter text in a box of width 5 has no space on
\* the left and one on the right
C18_Witness ==
    /\ op = "box_row"
    /\ align = "center"
    /\ w = 5
    /\ text = <<"a", "a">>
    /\ strip(result) = <<"|", "a", "a", " ", "|">>

-----------------------------------------------------------------------------
(* C19 *)

\* C19: box_row returns gradient_text, applied once and with the primary
\* spec, of the whole assembled line: one colour-set per character of the
\* line, one reset, the colour of each character taken at its index in the
\* line, from color_start on the left border to color_end on the right.
C19_WholeLineGradient ==
    op = "box_row" =>
        LET line   == full_line(clean, w, align)
            n      == Len(line)
            colors == ColorsOf(result)
        IN  /\ CharsOf(result) = line
            /\ Resets(result) = 1
            /\ Len(colors) = n
            /\ \A i \in 0..(n - 1) : \A c \in 1..3 :
                   colors[i + 1][c]
                       = FloorLerp(color_start[c], color_end[c], i, n)
            /\ colors[1] = color_start
            /\ colors[n] = color_end

\* a row of width 5: the letter in the middle of the line has the midpoint
\* colour, the borders the endpoints
C19_Witness ==
    /\ op = "box_row"
    /\ w = 5
    /\ align = "center"
    /\ text = <<"a">>
    /\ ColorsOf(result)[1] = <<80, 130, 255>>
    /\ ColorsOf(result)[3] = <<167, 115, 217>>
    /\ ColorsOf(result)[5] = <<255, 100, 180>>

-----------------------------------------------------------------------------
(* C20 *)

\* C20: box_empty(width) is box_row("", width, center) for every width;
\* stripped, the border, max(width - 2, 0) spaces and the border.
C20_BoxEmptyIsCenteredEmptyRow ==
    op = "box_empty" =>
        /\ result = box_row(<<>>, w, "center")
        /\ strip(result) = <<"|">> \o Rep(" ", Max(w - 2, 0)) \o <<"|">>

\* width 2: the two borders and nothing between them
C20_Witness ==
    /\ op = "box_empty"
    /\ w = 2
    /\ strip(result) = <<"|", "|">>

-----------------------------------------------------------------------------
(* C21 *)

Min(a, b) == IF a <= b THEN a ELSE b

\* the colours lie between the endpoints start and end on every channel,
\* inside 0..255, and each channel moves along the positions only in the
\* direction from start to end
InRangeAndMonotone(colors, start, end) ==
    \A c \in 1..3 :
        /\ \A k \in 1..Len(colors) :
               /\ Min(start[c], end[c]) <= colors[k][c]
               /\ colors[k][c] <= Max(start[c], end[c])
               /\ colors[k][c] \in 0..255
        /\ \A k \in 1..(Len(colors) - 1) :
               /\ (end[c] >= start[c] => colors[k][c] <= colors[k + 1][c])
               /\ (end[c] <= start[c] => colors[k][c] >= colors[k + 1][c])

\* C21: under either built-in spec, every channel value gradient_text emits
\* lies between start[c] and end[c] inclusive, hence in 0..255, and along
\* the positions each channel is non-decreasing when end[c] >= start[c] and
\* non-increasing when end[c] <= start[c]; the box lines, coloured by the
\* same gradient_text with the primary spec, likewise.
C21_ChannelsInRangeAndMonotone ==
    /\ (op = "gradient_text" /\ text # <<>>) =>
            LET colors == ColorsOf(result)
            IN  /\ Len(colors) = Len(text)
                /\ InRangeAndMonotone(colors, StartOf(use_alt), EndOf(use_alt))
    /\ op \in BoxOps =>
            LET colors == ColorsOf(result)
            IN  /\ Len(colors) >= 2
                /\ InRangeAndMonotone(colors, color_start, color_end)

\* three characters under the primary spec: red rises 80, 167, 255 while
\* green falls 130, 115, 100 and blue falls 255, 217, 180
C21_Witness ==
    /\ op = "gradient_text"
    /\ ~use_alt
    /\ Len(text) = 3
    /\ ColorsOf(result) =
           <<(<<80, 130, 255>>), (<<167, 115, 217>>), (<<255, 100, 180>>)>>

-----------------------------------------------------------------------------
(* C22 *)

\* C22: print_gradient_line(text, center=True) recovers from a failing
\* terminal-size query by using 80 columns: it does not raise and prints the
\* gradient after max((80 - len(text)) // 2, 0) spaces; when the query
\* succeeds the padding is max((columns - len(text)) // 2, 0) spaces, none
\* when the text is wider than the terminal.
C22_PrintGradientLineFallsBackTo80 ==
    (op = "print_gradient_line" /\ center) =>
        LET width == IF tty THEN columns ELSE 80
        IN  /\ exc = "none"
            /\ result = Rep(" ", Max((width - Len(text)) \div 2, 0))
                            \o gradient_text(text, use_alt)

====
